---- MODULE Spec2Model ----
(***************************************************************************)
(* Model of the simulation core of pong-deluxe: the frame loop of main(),  *)
(* the specs dispatcher with its four systems (PhysicsSystem, UpdateBall,  *)
(* UpdatePaddles, rendering) and the AABB collision code of physics.rs.    *)
(*                                                                         *)
(* Numbers.  Every f32 of the program is a fixed-point integer counting    *)
(* thousandths: 0.9 is 900, 1.3 is 1300, 0.01 is 10, -1.0 is -1000.  The   *)
(* product of two such numbers is Mul(a, b) = (a * b) \div 1000.  All      *)
(* sampled inputs are chosen so that every product and quotient the model  *)
(* computes is exact, so the fixed point agrees with the real arithmetic   *)
(* on the values explored; f32 rounding itself is not modelled.            *)
(***************************************************************************)
EXTENDS Integers, Sequences, FiniteSets, TLC

VARIABLES
    position,          \* TransformComponent.position, per entity
    velocity,          \* PhysicsComponent.velocity, per entity
    bbox,              \* PhysicsComponent.bbox (local box), per entity
    collided_objects,  \* PhysicsComponent.collided_objects, per entity
    controller_data,   \* the Controllers resource: Seq of ControllerState
    total_time,        \* the TotalTime resource, counted in frames since Init
    pc,                \* where main() stands: "poll", "dispatch", "maintain", "exit", "panic"
    sys,               \* dispatcher: "idle" / "running" / "done", per system
    stdout,            \* the score lines printed so far
    call               \* the last direct call of a function of physics.rs, with its result

vars == <<position, velocity, bbox, collided_objects, controller_data,
          total_time, pc, sys, stdout, call>>

----------------------------------------------------------------------------
(* Bounds of the model *)

\* frames dispatched in one behaviour
MaxFrames == 2

\* game controllers connected at most
MaxControllers == 1

\* largest coordinate of the boxes handed directly to the functions of physics.rs
MaxCoord == 3

\* longest vertex list handed directly to the constructors of physics.rs
MaxVerts == 3

----------------------------------------------------------------------------
(* fy_math.rs *)

Vec2(x, y) == [x |-> x, y |-> y]

\* f32 * f32 in thousandths
Mul(a, b) == (a * b) \div 1000

dot(a, b) == Mul(a.x, b.x) + Mul(a.y, b.y)

sub(a, b) == Vec2(a.x - b.x, a.y - b.y)

\* impl Mul<Vec2> for f32
scale(k, v) == Vec2(Mul(v.x, k), Mul(v.y, k))

----------------------------------------------------------------------------
(* Constants of main.rs *)

AXIS_MAX == 32768

\* sin(15 degrees) = 0.2588: the y impulse lies in [-0.2588, 0.2588)
BOUNCE_OFFSET == 15

DeltaTime == 10

\* |x| beyond which a player has scored (1.3)
ScoreLimit == 1300

\* speed of the ball after a reset (0.5)
ResetSpeed == 500

BALL_VERTICES == << Vec2(-50, 50), Vec2(50, 50), Vec2(50, -50), Vec2(-50, -50) >>

PADDLE_VERTICES == << Vec2(-70, 200), Vec2(70, 200), Vec2(70, -200), Vec2(-70, -200) >>

WALL_VERTICES == << Vec2(-1000, 50), Vec2(1000, 50), Vec2(1000, -50), Vec2(-1000, -50) >>

\* the entities in creation order, which is the order of every join
entities == << "paddle1", "paddle2", "ball", "top_wall", "bot_wall" >>

Entity == { entities[i] : i \in 1..Len(entities) }

\* the Ball storage: Ball::new(paddle2, paddle1)
ball_storage == [ ball |-> [left_paddle |-> "paddle2", right_paddle |-> "paddle1"] ]

\* the Paddle storage
paddle_storage == [ paddle1 |-> [player_idx |-> 0], paddle2 |-> [player_idx |-> 1] ]

----------------------------------------------------------------------------
(* physics.rs: AABB *)

AABB(top_right, bot_left) == [top_right |-> top_right, bot_left |-> bot_left]

\* Option<Vec2>
None == [some |-> FALSE, val |-> Vec2(0, 0)]

Some(v) == [some |-> TRUE, val |-> v]

\* the outcome of a failed assert!: the construction yields no box
Panic == [panic |-> "Cannot build a bbox around a single point!"]

\* fold_step as it would be with the minimum of y never lowered
fold_step_min_y_kept(acc, vtx) ==
    LET curr_min == acc[1]
        curr_max == acc[2]
        new_max_x == IF vtx.x > curr_max.x THEN vtx.x ELSE curr_max.x
        new_max_y == IF vtx.y > curr_max.y THEN vtx.y ELSE curr_max.y
        new_min_x == IF vtx.x < curr_min.x THEN vtx.x ELSE curr_min.x
    IN  << Vec2(new_min_x, curr_min.y), Vec2(new_max_x, new_max_y) >>

\* one step of the fold of from_vertices: acc = <<curr_min, curr_max>>
fold_step(acc, vtx) ==
    LET curr_min == acc[1]
        curr_max == acc[2]
        new_max_x == IF vtx.x > curr_max.x THEN vtx.x ELSE curr_max.x
        new_max_y == IF vtx.y > curr_max.y THEN vtx.y ELSE curr_max.y
        new_min_x == IF vtx.x < curr_min.x THEN vtx.x ELSE curr_min.x
        new_min_y == IF vtx.y < curr_min.y THEN vtx.y ELSE curr_min.y
    IN  << Vec2(new_min_x, new_min_y), Vec2(new_max_x, new_max_y) >>

RECURSIVE fold(_, _, _)
\* vertices.iter().fold(acc, ...) from element k on
fold(vertices, k, acc) ==
    IF k > Len(vertices) THEN acc
    ELSE fold(vertices, k + 1, fold_step(acc, vertices[k]))

\* from_vertices as it would be with the assert asking for one vertex only
from_vertices_one_point(vertices) ==
    IF ~(Len(vertices) >= 1) THEN Panic
    ELSE LET first == vertices[1]
             mm == fold(vertices, 1, << first, first >>)
         IN  AABB(mm[2], mm[1])

from_vertices(vertices) ==
    IF ~(Len(vertices) >= 2) THEN Panic
    ELSE LET first == vertices[1]
             mm == fold(vertices, 1, << first, first >>)
         IN  AABB(mm[2], mm[1])

\* the value is the outcome of a panic, not a box or a component
is_panic(r) == "panic" \in DOMAIN r

\* PhysicsComponent::new
new(vertices) ==
    LET b == from_vertices(vertices)
    IN  IF is_panic(b) THEN b
        ELSE [velocity |-> Vec2(0, 0), bbox |-> b, collided_objects |-> << >>]

\* PhysicsComponent::with_velocity
with_velocity(vertices, v) ==
    LET b == from_vertices(vertices)
    IN  IF is_panic(b) THEN b
        ELSE [velocity |-> v, bbox |-> b, collided_objects |-> << >>]

adjust_position(self, pos) ==
    LET new_top == Vec2(self.top_right.x + pos.x, self.top_right.y + pos.y)
        new_bot == Vec2(self.bot_left.x + pos.x, self.bot_left.y + pos.y)
    IN  AABB(new_top, new_bot)

\* std::f32::MAX: larger than every overlap length
F32_MAX == 2147483647

Min(a, b) == IF a < b THEN a ELSE b

Max(a, b) == IF a > b THEN a ELSE b

\* disjoint_x as it would be with <= for <: boxes that touch do not collide
disjoint_x_touching(self, other) ==
    self.top_right.x <= other.bot_left.x \/ other.top_right.x <= self.bot_left.x

\* the projections of the two boxes on X are disjoint
disjoint_x(self, other) ==
    self.top_right.x < other.bot_left.x \/ other.top_right.x < self.bot_left.x

\* the projections of the two boxes on Y are disjoint
disjoint_y(self, other) ==
    self.top_right.y < other.bot_left.y \/ other.top_right.y < self.bot_left.y

overlap_x(self, other) ==
    Min(self.top_right.x, other.top_right.x) - Max(self.bot_left.x, other.bot_left.x)

overlap_y(self, other) ==
    Min(self.top_right.y, other.top_right.y) - Max(self.bot_left.y, other.bot_left.y)

\* check_collision as it would be with <= in the comparison of the Y overlap
check_collision_tie_y(self, other) ==
    IF disjoint_x(self, other) \/ disjoint_y(self, other) THEN None
    ELSE IF overlap_y(self, other) <= overlap_x(self, other)
         THEN Some(Vec2(0, 1000))
         ELSE Some(Vec2(1000, 0))

check_collision(self, other) ==
    IF disjoint_x(self, other) THEN None
    ELSE LET overlap1 == IF overlap_x(self, other) < F32_MAX
                         THEN overlap_x(self, other) ELSE F32_MAX
         IN  IF disjoint_y(self, other) THEN None
             ELSE IF overlap_y(self, other) < overlap1
                  THEN Some(Vec2(0, 1000))
                  ELSE Some(Vec2(1000, 0))

----------------------------------------------------------------------------
(* physics.rs: PhysicsSystem::run *)

RECURSIVE combinations(_, _)
\* itertools combinations(2) of the joined entities, from element i on:
\* lexicographic, every pair <<e1, e2>> with e1 before e2
combinations(s, i) ==
    IF i >= Len(s) THEN << >>
    ELSE [ j \in 1..(Len(s) - i) |-> << s[i], s[i + j] >> ] \o combinations(s, i + 1)

\* orient as it would be with > 0.0 for >= 0.0
orient_strict(axis, pos1, pos2) ==
    LET t2_to_t1 == sub(pos2, pos1)
    IN  IF dot(axis, t2_to_t1) > 0 THEN scale(-1000, axis) ELSE axis

\* the axis pushed for a colliding pair: negated when it points from 1 to 2
orient(axis, pos1, pos2) ==
    LET t2_to_t1 == sub(pos2, pos1)
    IN  IF dot(axis, t2_to_t1) >= 0 THEN scale(-1000, axis) ELSE axis

\* the body of the first loop for one combination: what it pushes on collision_map
narrow_phase(pos, boxes, e1, e2) ==
    LET box1 == adjust_position(boxes[e1], pos[e1])
        box2 == adjust_position(boxes[e2], pos[e2])
        hit  == check_collision(box1, box2)
    IN  IF hit.some THEN << << e1, e2, orient(hit.val, pos[e1], pos[e2]) >> >>
        ELSE << >>

RECURSIVE collision_map(_, _, _, _)
\* the first loop: collision_map after the combinations from k on
collision_map(pos, boxes, pairs, k) ==
    IF k > Len(pairs) THEN << >>
    ELSE narrow_phase(pos, boxes, pairs[k][1], pairs[k][2])
         \o collision_map(pos, boxes, pairs, k + 1)

Collision(other, mtv) == [other |-> other, mtv |-> mtv]

\* clear as it would be with the second loop left out
clear_skipped(co) == co

\* the second loop: collided_objects.clear() on every PhysicsComponent
clear(co) == [ e \in DOMAIN co |-> << >> ]

\* push_pair as it would be with the axis mirrored for the second participant
push_pair_mirrored(co, c) ==
    LET co1 == [co EXCEPT ![c[1]] = Append(@, Collision(c[2], c[3]))]
    IN  [co1 EXCEPT ![c[2]] = Append(@, Collision(c[1], scale(-1000, c[3])))]

\* the body of the third loop: one collision pushed on both participants
push_pair(co, c) ==
    LET e1 == c[1]
        e2 == c[2]
        mtv == c[3]
        co1 == [co EXCEPT ![e1] = Append(@, Collision(e2, mtv))]
    IN  [co1 EXCEPT ![e2] = Append(@, Collision(e1, mtv))]

\* get_mut as it would be with a storage that has lost the components of the walls
get_mut_without_walls(co, e) ==
    IF e \in DOMAIN co \ { "top_wall", "bot_wall" }
    THEN [some |-> TRUE, val |-> co[e]]
    ELSE [some |-> FALSE, val |-> << >>]

\* physics_storage.get_mut(e): the records of e if e has a PhysicsComponent
get_mut(co, e) ==
    IF e \in DOMAIN co
    THEN [some |-> TRUE, val |-> co[e]]
    ELSE [some |-> FALSE, val |-> << >>]

\* the third loop panics on collision c: "Collision from unknown entity occured!"
push_panics(co, c) == ~get_mut(co, c[1]).some \/ ~get_mut(co, c[2]).some

RECURSIVE push_all(_, _, _)
\* the third loop over collision_map, from element k on
push_all(co, map, k) ==
    IF k > Len(map) THEN co
    ELSE push_all(push_pair(co, map[k]), map, k + 1)

\* collided_objects after PhysicsSystem::run
physics_run(co, pos, boxes) ==
    LET map == collision_map(pos, boxes, combinations(entities, 1), 1)
    IN  push_all(clear(co), map, 1)

\* PhysicsSystem::run panics in its third loop
physics_panics(co, pos, boxes) ==
    LET map == collision_map(pos, boxes, combinations(entities, 1), 1)
    IN  \E k \in 1..Len(map) : push_panics(clear(co), map[k])

----------------------------------------------------------------------------
(* main.rs: UpdateBall::run *)

\* rng.gen_range(-BOUNCE_OFFSET, BOUNCE_OFFSET) followed by to_radians().sin():
\* sampled angles (thousandths of a degree) with their sine
BounceAngles == { a \in { [deg |-> -11537, sin |-> -200], [deg |-> -5739, sin |-> -100],
                          [deg |-> 0, sin |-> 0],
                          [deg |-> 5739, sin |-> 100], [deg |-> 11537, sin |-> 200] } :
                  -1000 * BOUNCE_OFFSET <= a.deg /\ a.deg < 1000 * BOUNCE_OFFSET }

\* rng.gen_range(0.0, 360.0) followed by to_radians().cos() and .sin():
\* sampled angles (thousandths of a degree) with their cosine and sine
ResetAngles == { a \in { [deg |-> 0, cos |-> 1000, sin |-> 0],
                         [deg |-> 36870, cos |-> 800, sin |-> 600],
                         [deg |-> 53130, cos |-> 600, sin |-> 800],
                         [deg |-> 90000, cos |-> 0, sin |-> 1000],
                         [deg |-> 126870, cos |-> -600, sin |-> 800],
                         [deg |-> 143130, cos |-> -800, sin |-> 600],
                         [deg |-> 180000, cos |-> -1000, sin |-> 0],
                         [deg |-> 216870, cos |-> -800, sin |-> -600],
                         [deg |-> 233130, cos |-> -600, sin |-> -800],
                         [deg |-> 270000, cos |-> 0, sin |-> -1000],
                         [deg |-> 306870, cos |-> 600, sin |-> -800],
                         [deg |-> 323130, cos |-> 800, sin |-> -600] } :
                 0 <= a.deg /\ a.deg < 360000 }

\* the record is one with a paddle of this ball
is_paddle(ball, other_collider) ==
    other_collider.other = ball.left_paddle \/ other_collider.other = ball.right_paddle

\* react as it would be with the branch of the right paddle left out
react_right_paddle_as_wall(vel, ball, other_collider, angle) ==
    IF other_collider.other = ball.left_paddle
    THEN Vec2(Mul(vel.x, -1000), vel.y + angle.sin)
    ELSE Vec2(vel.x, Mul(vel.y, -1000))

\* react as it would be if a paddle record with a vertical axis were treated as a wall
react_by_axis(vel, ball, other_collider, angle) ==
    IF is_paddle(ball, other_collider) /\ other_collider.mtv.x # 0
    THEN Vec2(Mul(vel.x, -1000), vel.y + angle.sin)
    ELSE Vec2(vel.x, Mul(vel.y, -1000))

\* react as it would be with the catch-all branch taken for every record
react_without_else(vel, ball, other_collider, angle) ==
    LET v == IF is_paddle(ball, other_collider)
             THEN Vec2(Mul(vel.x, -1000), vel.y + angle.sin)
             ELSE vel
    IN  Vec2(v.x, Mul(v.y, -1000))

\* the body of the loop over collided_objects: the velocity after one record
react(vel, ball, other_collider, angle) ==
    IF other_collider.other = ball.left_paddle
    THEN Vec2(Mul(vel.x, -1000), vel.y + angle.sin)
    ELSE IF other_collider.other = ball.right_paddle
         THEN Vec2(Mul(vel.x, -1000), vel.y + angle.sin)
         ELSE Vec2(vel.x, Mul(vel.y, -1000))

RECURSIVE react_all(_, _, _, _, _)
\* the loop over collided_objects from record k on; angles[k] is the draw of record k
react_all(vel, ball, records, angles, k) ==
    IF k > Len(records) THEN vel
    ELSE react_all(react(vel, ball, records[k], angles[k]), ball, records, angles, k + 1)

\* t.position = t.position + phys_c.velocity * deltatime
integrate(pos, vel) ==
    Vec2(pos.x + Mul(vel.x, DeltaTime), pos.y + Mul(vel.y, DeltaTime))

\* score_check as it would be with >= and <= for > and <
score_check_inclusive(pos) ==
    IF pos.x >= ScoreLimit THEN << "Player 2 has scored!" >>
    ELSE IF pos.x <= -ScoreLimit THEN << "Player 1 has scored!" >>
         ELSE << >>

\* score_check as it would be with the left boundary forgotten
score_check_right_only(pos) ==
    IF pos.x > ScoreLimit THEN << "Player 2 has scored!" >> ELSE << >>

\* the score check: the lines it prints
score_check(pos) ==
    IF pos.x > ScoreLimit THEN << "Player 2 has scored!" >>
    ELSE IF pos.x < -ScoreLimit THEN << "Player 1 has scored!" >>
         ELSE << >>

\* ball_step as it would be with the integration placed before the loop over the records
ball_step_integrating_first(pos, vel, ball, records, angles, reset_angle) ==
    LET v1 == react_all(vel, ball, records, angles, 1)
        p1 == integrate(pos, vel)
        printed == score_check(p1)
        reset == printed # << >>
    IN  [ position |-> IF reset THEN Vec2(0, 0) ELSE p1,
          velocity |-> IF reset
                       THEN scale(ResetSpeed, Vec2(reset_angle.cos, reset_angle.sin))
                       ELSE v1,
          printed  |-> printed ]

\* the body of the join loop of UpdateBall::run for one ball
ball_step(pos, vel, ball, records, angles, reset_angle) ==
    LET v1 == react_all(vel, ball, records, angles, 1)
        p1 == integrate(pos, v1)
        printed == score_check(p1)
        reset == printed # << >>
    IN  [ position |-> IF reset THEN Vec2(0, 0) ELSE p1,
          velocity |-> IF reset
                       THEN scale(ResetSpeed, Vec2(reset_angle.cos, reset_angle.sin))
                       ELSE v1,
          printed  |-> printed ]

----------------------------------------------------------------------------
(* main.rs: UpdatePaddles::run *)

ControllerState(x, y) == [left_axis_x |-> x, left_axis_y |-> y]

\* the y a paddle is given; controllers is indexed from 0 in the program
paddle_position(player_idx, controllers) ==
    IF player_idx < Len(controllers)
    THEN controllers[player_idx + 1].left_axis_y
    ELSE 0

\* paddles_run as it would be with the axis added to position.y
paddles_run_adding(pos, controllers) ==
    [ e \in DOMAIN pos |->
        IF e \in DOMAIN paddle_storage
        THEN Vec2(pos[e].x,
                  pos[e].y + paddle_position(paddle_storage[e].player_idx, controllers))
        ELSE pos[e] ]

\* paddles_run as it would be with the join taken over every Transform, the Paddle
\* storage left out and the first controller read
paddles_run_every_entity(pos, controllers) ==
    [ e \in DOMAIN pos |-> Vec2(pos[e].x, paddle_position(0, controllers)) ]

\* Transform after the join loop of UpdatePaddles::run
paddles_run(pos, controllers) ==
    [ e \in DOMAIN pos |->
        IF e \in DOMAIN paddle_storage
        THEN Vec2(pos[e].x, paddle_position(paddle_storage[e].player_idx, controllers))
        ELSE pos[e] ]

----------------------------------------------------------------------------
(* main.rs: the dispatcher built by main() *)

Systems == { "physics", "ball", "paddles", "rendering" }

\* Deps as it would be with rendering declared to depend on the detector only
Deps_rendering_after_physics ==
    [ physics |-> {}, ball |-> { "physics" }, paddles |-> { "physics" },
      rendering |-> { "physics" } ]

\* DispatcherBuilder::with(system, name, dependencies)
Deps == [ physics |-> {}, ball |-> { "physics" }, paddles |-> { "physics" },
          rendering |-> { "ball", "paddles" } ]

\* the SystemData of each system: the storages and resources it reads and writes
Access ==
    [ physics   |-> [ reads  |-> { "Entities" },
                      writes |-> { "PhysicsComponent", "TransformComponent" } ],
      ball      |-> [ reads  |-> { "Ball", "DeltaTime" },
                      writes |-> { "TransformComponent", "PhysicsComponent" } ],
      paddles   |-> [ reads  |-> { "Paddle", "Controllers" },
                      writes |-> { "TransformComponent" } ],
      rendering |-> [ reads  |-> { "RenderComponent", "TransformComponent" },
                      writes |-> {} ] ]

\* two systems that may not run at the same time: one writes what the other accesses
Conflict(s, t) ==
    \/ Access[s].writes \cap (Access[t].reads \cup Access[t].writes) # {}
    \/ Access[t].writes \cap (Access[s].reads \cup Access[s].writes) # {}

\* CanStart as it would be with the accesses of the running systems ignored
CanStart_without_conflicts(s) ==
    /\ pc = "dispatch"
    /\ sys[s] = "idle"
    /\ \A d \in Deps[s] : sys[d] = "done"

\* CanStart as it would be with the declared dependencies ignored
CanStart_without_deps(s) ==
    /\ pc = "dispatch"
    /\ sys[s] = "idle"
    /\ \A t \in Systems \ { s } : sys[t] = "running" => ~Conflict(s, t)

\* the dispatcher may start s: its dependencies are done, nothing it conflicts with runs
CanStart(s) ==
    /\ pc = "dispatch"
    /\ sys[s] = "idle"
    /\ \A d \in Deps[s] : sys[d] = "done"
    /\ \A t \in Systems \ { s } : sys[t] = "running" => ~Conflict(s, t)

\* the dispatcher hands system s to the thread pool
Start(s) ==
    /\ CanStart(s)
    /\ sys' = [sys EXCEPT ![s] = "running"]
    /\ UNCHANGED <<call, position, velocity, bbox, collided_objects, controller_data,
                   total_time, pc, stdout>>

\* PhysicsSystemRun as it would be if adjust_position moved the stored box
PhysicsSystemRun_storing_world_box ==
    /\ pc = "dispatch"
    /\ sys["physics"] = "running"
    /\ collided_objects' = physics_run(collided_objects, position, bbox)
    /\ bbox' = [ e \in DOMAIN bbox |-> adjust_position(bbox[e], position[e]) ]
    /\ sys' = [sys EXCEPT !["physics"] = "done"]
    /\ UNCHANGED <<call, position, velocity, controller_data, total_time, pc, stdout>>

\* PhysicsSystemRun as it would be if the detector pushed the first participant of
\* every collision out of the second along the recorded axis
PhysicsSystemRun_resolving ==
    /\ pc = "dispatch"
    /\ sys["physics"] = "running"
    /\ collided_objects' = physics_run(collided_objects, position, bbox)
    /\ position' = [ e \in DOMAIN position |->
                       LET co == physics_run(collided_objects, position, bbox)[e]
                       IN  IF co = << >> THEN position[e]
                           ELSE Vec2(position[e].x + Mul(co[1].mtv.x, DeltaTime),
                                     position[e].y + Mul(co[1].mtv.y, DeltaTime)) ]
    /\ sys' = [sys EXCEPT !["physics"] = "done"]
    /\ UNCHANGED <<call, velocity, bbox, controller_data, total_time, pc, stdout>>

\* PhysicsSystem::run
PhysicsSystemRun ==
    /\ pc = "dispatch"
    /\ sys["physics"] = "running"
    /\ IF physics_panics(collided_objects, position, bbox)
       THEN /\ pc' = "panic"
            /\ UNCHANGED <<collided_objects, sys>>
       ELSE /\ collided_objects' = physics_run(collided_objects, position, bbox)
            /\ sys' = [sys EXCEPT !["physics"] = "done"]
            /\ pc' = pc
    /\ UNCHANGED <<call, position, velocity, bbox, controller_data, total_time, stdout>>

\* UpdateBall::run: the join holds the one entity with a Ball
UpdateBallRun ==
    /\ pc = "dispatch"
    /\ sys["ball"] = "running"
    /\ \E angles \in [ 1..Len(collided_objects["ball"]) -> BounceAngles ],
          reset_angle \in ResetAngles :
          LET r == ball_step(position["ball"], velocity["ball"], ball_storage["ball"],
                             collided_objects["ball"], angles, reset_angle)
          IN  /\ position' = [position EXCEPT !["ball"] = r.position]
              /\ velocity' = [velocity EXCEPT !["ball"] = r.velocity]
              /\ stdout' = stdout \o r.printed
    /\ sys' = [sys EXCEPT !["ball"] = "done"]
    /\ UNCHANGED <<call, bbox, collided_objects, controller_data, total_time, pc>>

\* UpdatePaddles::run
UpdatePaddlesRun ==
    /\ pc = "dispatch"
    /\ sys["paddles"] = "running"
    /\ position' = paddles_run(position, controller_data)
    /\ sys' = [sys EXCEPT !["paddles"] = "done"]
    /\ UNCHANGED <<call, velocity, bbox, collided_objects, controller_data, total_time,
                   pc, stdout>>

\* RenderContext::run: reads RenderComponent and Transform, draws
RenderingRun ==
    /\ pc = "dispatch"
    /\ sys["rendering"] = "running"
    /\ sys' = [sys EXCEPT !["rendering"] = "done"]
    /\ UNCHANGED <<call, position, velocity, bbox, collided_objects, controller_data,
                   total_time, pc, stdout>>

----------------------------------------------------------------------------
(* main.rs: the frame loop of main() *)

\* raw values of a controller axis (i16) that are sampled
AxisSamples == { 0, 16384, 24576 }

\* raw values sampled for the X axis, which no system reads
AxisXSamples == { 0 }

\* controller.axis(..) as f32 / AXIS_MAX
read_axis(raw) == (raw * 1000) \div AXIS_MAX

\* Quit as it would be with the quit event also looked at while the frame is dispatched
Quit_mid_frame ==
    /\ pc \in { "poll", "dispatch" }
    /\ pc' = "exit"
    /\ UNCHANGED <<call, position, velocity, bbox, collided_objects, controller_data,
                   total_time, sys, stdout>>

\* Event::Quit seen by the poll at the top of the loop: break 'mainloop
Quit ==
    /\ pc = "poll"
    /\ pc' = "exit"
    /\ UNCHANGED <<call, position, velocity, bbox, collided_objects, controller_data,
                   total_time, sys, stdout>>

\* no quit event: the controllers are read, the time advances, dispatch begins
BeginFrame ==
    /\ pc = "poll"
    /\ total_time < MaxFrames * DeltaTime
    /\ \E xs \in [ 1..Len(controller_data) -> AxisXSamples ],
          ys \in [ 1..Len(controller_data) -> AxisSamples ] :
          controller_data' = [ i \in 1..Len(controller_data) |->
                                 ControllerState(read_axis(xs[i]), read_axis(ys[i])) ]
    /\ total_time' = total_time + DeltaTime
    /\ sys' = [ s \in Systems |-> "idle" ]
    /\ pc' = "dispatch"
    /\ UNCHANGED <<call, position, velocity, bbox, collided_objects, stdout>>

\* DispatchReturn as it would be if dispatch returned as soon as no system is running
DispatchReturn_early ==
    /\ pc = "dispatch"
    /\ \A s \in Systems : sys[s] # "running"
    /\ pc' = "maintain"
    /\ UNCHANGED <<call, position, velocity, bbox, collided_objects, controller_data,
                   total_time, sys, stdout>>

\* dispatcher.dispatch returns once every system has run
DispatchReturn ==
    /\ pc = "dispatch"
    /\ \A s \in Systems : sys[s] = "done"
    /\ pc' = "maintain"
    /\ UNCHANGED <<call, position, velocity, bbox, collided_objects, controller_data,
                   total_time, sys, stdout>>

\* world.maintain(): nothing was deleted or lazily inserted, so nothing changes
Maintain ==
    /\ pc = "maintain"
    /\ pc' = "poll"
    /\ UNCHANGED <<call, position, velocity, bbox, collided_objects, controller_data,
                   total_time, sys, stdout>>

----------------------------------------------------------------------------
(* The states the model starts from *)

\* the local box each entity is built with
InitBBox ==
    [ paddle1 |-> from_vertices(PADDLE_VERTICES), paddle2 |-> from_vertices(PADDLE_VERTICES),
      ball |-> from_vertices(BALL_VERTICES),
      top_wall |-> from_vertices(WALL_VERTICES), bot_wall |-> from_vertices(WALL_VERTICES) ]

(* The ball at the top of the loop.  The first is the state main() builds.    *)
(* The others are states of later frames, one or two frames before the ball   *)
(* meets something; each is reached from the first by the actions below       *)
(* (found by running them from the first state alone for up to 800 frames).   *)
(* prev is where the ball stood when the detector last ran, held says that    *)
(* the right paddle stood at y = 750 then and still does, and min is the      *)
(* least number of controllers with which the state is reached.               *)
(*  - (775, 0) moving (500, 0): frame 155 of the first serve.                 *)
(*  - (1295, 0) moving (500, 0): frame 259 of the first serve, the right      *)
(*    paddle held away from y = 0 while the ball passed it.                   *)
(*  - (-1295, 0) moving (-500, 0): 259 frames after a reset at 180 degrees,   *)
(*    the left paddle held away.                                              *)
(*  - (597, 796) moving (300, 400): 199 frames after a reset at 53.13 degrees.*)
(*  - (-775, 311) moving (-500, 100): the first serve bounced at frame 156    *)
(*    off the right paddle with impulse 0.1, 310 frames later.                *)
(*  - (776, 582) moving (400, 300): 194 frames after a reset at 36.87 degrees.*)
(*  - (775, 311) moving (500, 100): a reset at 180 degrees bounced off the    *)
(*    left paddle with impulse 0.1, 310 frames later.                         *)
(*  - (-1296, 972) moving (-400, 300): 324 frames after a reset at 143.13     *)
(*    degrees, past the left paddle and beside the bottom wall.               *)
(*  - (800, 798) moving (400, 300): the ball of a reset at 36.87 degrees,     *)
(*    caught at (800, 600) by the right paddle moved to y = 750 and flipped   *)
(*    by it in each of the 66 frames since (every impulse 0).                 *)
(*  - (895, 0) moving (500, 0): frame 179 of the first serve, the right       *)
(*    paddle held at y = 750 since the first frame while the ball passed it.  *)
(*  - (1011, 252) moving (300, -400): the ball of a reset at 53.13 degrees,   *)
(*    turned by the bottom wall at frame 201 and past the front of the right  *)
(*    paddle, 136 frames later, just above the paddle's upper face at y = 200.*)
StartBall ==
    { [ pos |-> Vec2(0, 0),        vel |-> Vec2(500, 0),    prev |-> Vec2(0, 0),
        held |-> FALSE, setup |-> TRUE,  min |-> 0 ],
      [ pos |-> Vec2(775, 0),      vel |-> Vec2(500, 0),    prev |-> Vec2(770, 0),
        held |-> FALSE, setup |-> FALSE, min |-> 0 ],
      [ pos |-> Vec2(1295, 0),     vel |-> Vec2(500, 0),    prev |-> Vec2(1290, 0),
        held |-> FALSE, setup |-> FALSE, min |-> 1 ],
      [ pos |-> Vec2(-1295, 0),    vel |-> Vec2(-500, 0),   prev |-> Vec2(-1290, 0),
        held |-> FALSE, setup |-> FALSE, min |-> 2 ],
      [ pos |-> Vec2(597, 796),    vel |-> Vec2(300, 400),  prev |-> Vec2(594, 792),
        held |-> FALSE, setup |-> FALSE, min |-> 1 ],
      [ pos |-> Vec2(-775, 311),   vel |-> Vec2(-500, 100), prev |-> Vec2(-770, 310),
        held |-> FALSE, setup |-> FALSE, min |-> 0 ],
      [ pos |-> Vec2(776, 582),    vel |-> Vec2(400, 300),  prev |-> Vec2(772, 579),
        held |-> FALSE, setup |-> FALSE, min |-> 1 ],
      [ pos |-> Vec2(775, 311),    vel |-> Vec2(500, 100),  prev |-> Vec2(770, 310),
        held |-> FALSE, setup |-> FALSE, min |-> 1 ],
      [ pos |-> Vec2(-1296, 972),  vel |-> Vec2(-400, 300), prev |-> Vec2(-1292, 969),
        held |-> FALSE, setup |-> FALSE, min |-> 1 ],
      [ pos |-> Vec2(800, 798),    vel |-> Vec2(400, 300),  prev |-> Vec2(796, 795),
        held |-> TRUE,  setup |-> FALSE, min |-> 1 ],
      [ pos |-> Vec2(895, 0),      vel |-> Vec2(500, 0),    prev |-> Vec2(890, 0),
        held |-> TRUE,  setup |-> FALSE, min |-> 1 ],
      [ pos |-> Vec2(1011, 252),   vel |-> Vec2(300, -400), prev |-> Vec2(1008, 256),
        held |-> FALSE, setup |-> FALSE, min |-> 0 ] }

\* no function has been called directly
NoCall == [fn |-> "none", returned |-> FALSE]

\* the world with the ball as b says and the controllers holding ys; the records
\* are those of the detector's last run, when the paddles stood at y = 0 unless held
World(b, ys) ==
    /\ controller_data = [ i \in 1..Len(ys) |-> ControllerState(0, read_axis(ys[i])) ]
    /\ position = [ paddle1 |-> Vec2(900, paddle_position(0, controller_data)),
                    paddle2 |-> Vec2(-900, paddle_position(1, controller_data)),
                    ball |-> b.pos,
                    top_wall |-> Vec2(0, -900), bot_wall |-> Vec2(0, 900) ]
    /\ velocity = [ e \in Entity |-> IF e = "ball" THEN b.vel ELSE Vec2(0, 0) ]
    /\ bbox = InitBBox
    /\ collided_objects =
          IF b.setup THEN [ e \in Entity |-> << >> ]
          ELSE physics_run([ e \in Entity |-> << >> ],
                           [ paddle1 |-> Vec2(900, IF b.held THEN 750 ELSE 0),
                             paddle2 |-> Vec2(-900, 0),
                             ball |-> b.prev,
                             top_wall |-> Vec2(0, -900), bot_wall |-> Vec2(0, 900) ],
                           InitBBox)
    /\ total_time = 0
    /\ pc = "poll"
    /\ sys = [ s \in Systems |-> "idle" ]
    /\ stdout = << >>

Init ==
    /\ \E b \in StartBall, n \in 0..MaxControllers :
       \E ys \in [ 1..n -> AxisSamples ] :
           /\ n >= b.min
           /\ b.setup => \A i \in 1..n : ys[i] = 0
           /\ b.held => read_axis(ys[1]) = 750
           /\ World(b, ys)
    /\ call = NoCall

Next ==
    \/ Quit
    \/ BeginFrame
    \/ \E s \in Systems : Start(s)
    \/ PhysicsSystemRun
    \/ UpdateBallRun
    \/ UpdatePaddlesRun
    \/ RenderingRun
    \/ DispatchReturn
    \/ Maintain

Spec == Init /\ [][Next]_vars

----------------------------------------------------------------------------
(* Collision records *)

\* the world box of an entity at its current position, as intervals
WorldLo(e) == Vec2(bbox[e].bot_left.x + position[e].x, bbox[e].bot_left.y + position[e].y)

WorldHi(e) == Vec2(bbox[e].top_right.x + position[e].x, bbox[e].top_right.y + position[e].y)

\* the closed world boxes of a and b share a point
Overlapping(a, b) ==
    /\ Max(WorldLo(a).x, WorldLo(b).x) <= Min(WorldHi(a).x, WorldHi(b).x)
    /\ Max(WorldLo(a).y, WorldLo(b).y) <= Min(WorldHi(a).y, WorldHi(b).y)

Partners(e) == { p \in Entity \ { e } : Overlapping(e, p) }

Others(e) == { collided_objects[e][i].other : i \in 1..Len(collided_objects[e]) }

\* the detector has run in this frame and no position has changed since
DetectorJustRan ==
    pc = "dispatch" /\ sys["physics"] = "done" /\ sys["ball"] # "done" /\ sys["paddles"] # "done"

\* C1: after a run of the detector the records of every entity are exactly its
\* overlapping partners at the current positions: one record per partner, no
\* duplicate, nothing left from an earlier frame, empty when nothing overlaps.
C1_RecordsAreTheOverlaps ==
    DetectorJustRan =>
        \A e \in Entity :
            /\ Others(e) = Partners(e)
            /\ Len(collided_objects[e]) = Cardinality(Partners(e))

\* the detector has just recorded the ball against the right paddle, while the walls hold nothing
C1_Witness ==
    /\ DetectorJustRan
    /\ Others("ball") = { "paddle1" }
    /\ collided_objects["top_wall"] = << >>

HasRecord(a, b, m) ==
    \E i \in 1..Len(collided_objects[a]) : collided_objects[a][i] = Collision(b, m)

RecordedAxes ==
    UNION { { collided_objects[e][i].mtv : i \in 1..Len(collided_objects[e]) } : e \in Entity }

\* C2: the records are symmetric: a holds {other: b, axis} exactly when b holds
\* {other: a, axis}, with the identical signed axis.
C2_RecordsSymmetric ==
    \A a \in Entity, b \in Entity : \A m \in RecordedAxes :
        HasRecord(a, b, m) <=> HasRecord(b, a, m)

\* after a run of the detector the right paddle and the bottom wall hold each other
\* with the same negated axis
C2_Witness ==
    /\ DetectorJustRan
    /\ HasRecord("paddle1", "bot_wall", Vec2(0, -1000))
    /\ HasRecord("bot_wall", "paddle1", Vec2(0, -1000))

----------------------------------------------------------------------------
(* The functions of physics.rs called directly on small boxes *)

Coords == 0..MaxCoord

\* the boxes from_vertices can build over Coords: bot_left <= top_right on both axes
Boxes ==
    { AABB(Vec2(hx, hy), Vec2(lx, ly)) : <<lx, hx, ly, hy>> \in
        { q \in Coords \X Coords \X Coords \X Coords : q[1] <= q[2] /\ q[3] <= q[4] } }

\* self.check_collision(&other) on the boxes the behaviour started with
CallCheckCollision ==
    /\ call.fn = "check_collision"
    /\ ~call.returned
    /\ call' = [call EXCEPT !.returned = TRUE,
                            !.ret = check_collision(call.self, call.other)]
    /\ UNCHANGED <<position, velocity, bbox, collided_objects, controller_data,
                   total_time, pc, sys, stdout>>

InitAABB ==
    /\ \E b \in { s \in StartBall : s.setup } : World(b, << >>)
    /\ \E b1 \in Boxes, b2 \in Boxes :
          call = [ fn |-> "check_collision", returned |-> FALSE,
                   self |-> b1, other |-> b2, ret |-> None ]

NextAABB == CallCheckCollision

SpecAABB == InitAABB /\ [][NextAABB]_vars

\* the length of the common part of [lo1, hi1] and [lo2, hi2]
CommonLength(lo1, hi1, lo2, hi2) ==
    (IF hi1 < hi2 THEN hi1 ELSE hi2) - (IF lo1 > lo2 THEN lo1 ELSE lo2)

\* C3: check_collision reports no collision if the projections on X are disjoint
\* (max1 < min2 or max2 < min1) or those on Y are, and a collision otherwise;
\* boxes that merely touch are reported as colliding.
C3_CollisionIffNotDisjoint ==
    (call.fn = "check_collision" /\ call.returned) =>
        LET a == call.self
            b == call.other
            x_apart == a.top_right.x < b.bot_left.x \/ b.top_right.x < a.bot_left.x
            y_apart == a.top_right.y < b.bot_left.y \/ b.top_right.y < a.bot_left.y
        IN  /\ (x_apart \/ y_apart) => call.ret = None
            /\ ~(x_apart \/ y_apart) => call.ret.some

\* two boxes that only touch on X (max1 = min2) were reported as colliding
C3_Witness ==
    /\ call.fn = "check_collision"
    /\ call.returned
    /\ call.self.top_right.x = call.other.bot_left.x
    /\ call.self.bot_left.x < call.self.top_right.x
    /\ call.ret.some

\* C4: for overlapping boxes the axis is (1,0) or (0,1): (0,1) exactly when the Y
\* overlap is strictly shorter than the X overlap, (1,0) otherwise, ties included.
C4_AxisOfSmallerOverlap ==
    (call.fn = "check_collision" /\ call.returned /\ call.ret.some) =>
        LET a == call.self
            b == call.other
            len_x == CommonLength(a.bot_left.x, a.top_right.x, b.bot_left.x, b.top_right.x)
            len_y == CommonLength(a.bot_left.y, a.top_right.y, b.bot_left.y, b.top_right.y)
        IN  /\ call.ret.val \in { Vec2(1000, 0), Vec2(0, 1000) }
            /\ call.ret.val = Vec2(0, 1000) <=> len_y < len_x
            /\ call.ret.val = Vec2(1000, 0) <=> len_y >= len_x

\* two boxes that overlap by the same positive length on both axes got the X axis
C4_Witness ==
    /\ call.fn = "check_collision"
    /\ call.returned
    /\ call.ret = Some(Vec2(1000, 0))
    /\ LET a == call.self
           b == call.other
       IN  /\ CommonLength(a.bot_left.x, a.top_right.x, b.bot_left.x, b.top_right.x) = 1
           /\ CommonLength(a.bot_left.y, a.top_right.y, b.bot_left.y, b.top_right.y) = 1

----------------------------------------------------------------------------
(* The ball reaction *)

\* the step is a run of UpdateBall
BallStep == sys["ball"] = "running" /\ sys'["ball"] = "done"

BallRecords == collided_objects["ball"]

Paddles == { ball_storage["ball"].left_paddle, ball_storage["ball"].right_paddle }

\* how many records of the ball are with a paddle, and how many with anything else
NPaddle == Cardinality({ i \in 1..Len(BallRecords) : BallRecords[i].other \in Paddles })

NOther == Cardinality({ i \in 1..Len(BallRecords) : BallRecords[i].other \notin Paddles })

\* the y impulses a paddle record can add
Impulses == { -200, -100, 0, 100, 200 }

\* b has the opposite sign of a
SignFlipped(a, b) == (a > 0 /\ b < 0) \/ (a < 0 /\ b > 0)

\* C5 as claimed: velocity.x flips sign on a paddle collision; velocity.y flips
\* sign on a non-paddle collision and never on a paddle collision.
C5_AsClaimed ==
    [][ BallStep =>
          /\ NPaddle = 1 => velocity'["ball"].x = -velocity["ball"].x
          /\ (NPaddle = 0 /\ NOther = 1) => velocity'["ball"].y = -velocity["ball"].y
          /\ (NPaddle = 1 /\ NOther = 0) =>
                ~SignFlipped(velocity["ball"].y, velocity'["ball"].y) ]_vars

\* C5, amended: velocity.x is negated by a paddle record; velocity.y is negated by
\* a non-paddle record and not by a paddle record, which adds the impulse
\* sin(angle) to it instead (and can change its sign that way).
C5_PaddleFlipsXOtherFlipsY ==
    [][ BallStep =>
          /\ NPaddle = 1 => velocity'["ball"].x = -velocity["ball"].x
          /\ (NPaddle = 0 /\ NOther = 1) =>
                /\ velocity'["ball"].y = -velocity["ball"].y
                /\ velocity'["ball"].x = velocity["ball"].x
          /\ (NPaddle = 1 /\ NOther = 0) =>
                velocity'["ball"].y - velocity["ball"].y \in Impulses
          /\ (Len(BallRecords) = 2 /\ BallRecords[1].other \in Paddles
                /\ BallRecords[2].other \notin Paddles) =>
                \E imp \in Impulses :
                    velocity'["ball"].y = -(velocity["ball"].y + imp) ]_vars

\* the ball reaction has just turned a ball moving right and up at the right paddle:
\* velocity.x is negated and the impulse took velocity.y from 0.1 to -0.1
C5_Witness ==
    /\ sys["ball"] = "done"
    /\ pc = "dispatch"
    /\ Others("ball") = { "paddle1" }
    /\ position["ball"] = Vec2(775, 311)
    /\ velocity["ball"] = Vec2(-500, -100)

\* the x of the ball after integration in a run of UpdateBall from this state
IntegratedX ==
    LET vx == IF NPaddle % 2 = 1 THEN -velocity["ball"].x ELSE velocity["ball"].x
    IN  position["ball"].x + (vx * 10) \div 1000

\* C6: a reset fires exactly when the x after integration is > 1.3 or < -1.3; then
\* the position is (0,0), the speed 0.5 and exactly one line is printed, "Player 2"
\* for x > 1.3 and "Player 1" for x < -1.3; else nothing is printed and position and
\* velocity stay as integrated.  Nothing else prints.
C6_ResetIffOutOfBounds ==
    [][ /\ BallStep =>
            IF IntegratedX > 1300 \/ IntegratedX < -1300
            THEN /\ position'["ball"] = Vec2(0, 0)
                 /\ velocity'["ball"].x * velocity'["ball"].x
                      + velocity'["ball"].y * velocity'["ball"].y = 500 * 500
                 /\ stdout' = Append(stdout, IF IntegratedX > 1300
                                             THEN "Player 2 has scored!"
                                             ELSE "Player 1 has scored!")
            ELSE /\ stdout' = stdout
                 /\ position'["ball"].x = IntegratedX
                 /\ position'["ball"].y
                      = position["ball"].y + (velocity'["ball"].y * 10) \div 1000
        /\ ~BallStep => stdout' = stdout ]_vars

\* the ball has just been reset after leaving on the right
C6_Witness ==
    /\ sys["ball"] = "done"
    /\ pc = "dispatch"
    /\ stdout = << "Player 2 has scored!" >>
    /\ position["ball"] = Vec2(0, 0)
    /\ velocity["ball"] = Vec2(-300, 400)

\* C7: the x of the ball is within [-1.3, 1.3] in every state: a ball that leaves the
\* bound is back at the origin when the run of UpdateBall that moved it ends.
C7_BallWithinBounds ==
    -1300 <= position["ball"].x /\ position["ball"].x <= 1300

\* the ball has just been reset after leaving on the left
C7_Witness ==
    /\ sys["ball"] = "done"
    /\ pc = "dispatch"
    /\ stdout = << "Player 1 has scored!" >>
    /\ position["ball"] = Vec2(0, 0)

\* C8 as claimed: in every frame a ball without records keeps its velocity and is
\* moved by velocity * deltaTime.
C8_AsClaimed ==
    [][ (BallStep /\ BallRecords = << >>) =>
          /\ velocity'["ball"] = velocity["ball"]
          /\ position'["ball"].x = position["ball"].x + (velocity["ball"].x * 10) \div 1000
          /\ position'["ball"].y = position["ball"].y + (velocity["ball"].y * 10) \div 1000
      ]_vars

\* C8, amended: in every frame in which no reset fires, a ball without records
\* keeps its velocity and is moved by velocity * 0.01, and a ball with records is
\* moved, once, by 0.01 times the velocity left by the records.
C8_IntegratedOnce ==
    [][ (BallStep /\ stdout' = stdout) =>
          /\ BallRecords = << >> => velocity'["ball"] = velocity["ball"]
          /\ velocity'["ball"].x
                = IF NPaddle % 2 = 1 THEN -velocity["ball"].x ELSE velocity["ball"].x
          /\ position'["ball"].x = position["ball"].x + (velocity'["ball"].x * 10) \div 1000
          /\ position'["ball"].y = position["ball"].y + (velocity'["ball"].y * 10) \div 1000
      ]_vars

\* the first tick: the ball served from (0,0) with (0.5,0) stands at (0.005,0)
C8_Witness ==
    /\ sys["ball"] = "done"
    /\ total_time = 10
    /\ position["ball"] = Vec2(5, 0)
    /\ velocity["ball"] = Vec2(500, 0)

----------------------------------------------------------------------------
(* The paddle update *)

\* C9: after a run of the paddle update the y of every paddle is the left_axis_y of
\* the controller at its player_idx if there is one and 0 otherwise.
C9_PaddleFollowsAxis ==
    sys["paddles"] = "done" =>
        \A e \in { "paddle1", "paddle2" } :
            position[e].y =
                IF paddle_storage[e].player_idx < Len(controller_data)
                THEN controller_data[paddle_storage[e].player_idx + 1].left_axis_y
                ELSE 0

\* with one controller, the right paddle was moved from the bottom wall to the
\* stick's 0.5 and the left paddle, without a controller, is at 0
C9_Witness ==
    /\ sys["paddles"] = "done"
    /\ pc = "dispatch"
    /\ Len(controller_data) = 1
    /\ "bot_wall" \in Others("paddle1")
    /\ position["paddle1"].y = 500
    /\ position["paddle2"].y = 0

----------------------------------------------------------------------------
(* The dispatcher *)

\* C10: no system starts before the systems it depends on have finished: the
\* detector before the ball reaction and the paddle update, both before rendering.
C10_DependencyOrder ==
    /\ sys["ball"] # "idle" => sys["physics"] = "done"
    /\ sys["paddles"] # "idle" => sys["physics"] = "done"
    /\ sys["rendering"] # "idle" => (sys["ball"] = "done" /\ sys["paddles"] = "done")

\* rendering runs, after the two gameplay systems, with the paddle update the first of them
C10_Witness ==
    /\ sys["rendering"] = "running"
    /\ sys["ball"] = "done"
    /\ sys["paddles"] = "done"
    /\ position["ball"].x = 5

----------------------------------------------------------------------------
(* The frame loop *)

\* the step leaves the loop
QuitStep == pc # "exit" /\ pc' = "exit"

\* C11: the quit signal is looked at only at the top of an iteration: the loop is
\* left only from the poll, where no system runs; after that nothing runs and nothing
\* is maintained again; a frame whose dispatch has begun goes on to the return of
\* dispatch with every system done and to its maintenance before the next poll.
C11_QuitOnlyBetweenFrames ==
    [][ /\ QuitStep => (pc = "poll" /\ \A s \in Systems : sys[s] # "running")
        /\ pc = "exit" => (pc' = "exit" /\ sys' = sys /\ position' = position
                             /\ velocity' = velocity /\ total_time' = total_time)
        /\ (pc = "dispatch" /\ pc' # "dispatch") =>
                (pc' = "maintain" /\ \A s \in Systems : sys[s] = "done")
        /\ (pc = "maintain" /\ pc' # "maintain") => pc' = "poll" ]_vars

\* the loop was left after two whole frames
C11_Witness ==
    /\ pc = "exit"
    /\ total_time = 2 * DeltaTime
    /\ \A s \in Systems : sys[s] = "done"

----------------------------------------------------------------------------
(* The constructors of physics.rs called directly on short vertex lists *)

\* coordinates of the vertices: below, at and above the origin
VertexCoords == { -MaxCoord, 0, 2 }

Vertices == { Vec2(x, y) : x \in VertexCoords, y \in VertexCoords }

\* the vertex lists of length 0 to MaxVerts
VertexLists == UNION { [ 1..n -> Vertices ] : n \in 0..MaxVerts }

Constructors == { "from_vertices", "new", "with_velocity" }

\* the velocities handed to with_velocity
CallVelocities == { Vec2(0, 0), Vec2(500, 0) }

\* AABB::from_vertices(vertices)
CallFromVertices ==
    /\ call.fn = "from_vertices"
    /\ ~call.returned
    /\ call' = [call EXCEPT !.returned = TRUE, !.ret = from_vertices(call.vertices)]
    /\ UNCHANGED <<position, velocity, bbox, collided_objects, controller_data,
                   total_time, pc, sys, stdout>>

\* PhysicsComponent::new(vertices)
CallNew ==
    /\ call.fn = "new"
    /\ ~call.returned
    /\ call' = [call EXCEPT !.returned = TRUE, !.ret = new(call.vertices)]
    /\ UNCHANGED <<position, velocity, bbox, collided_objects, controller_data,
                   total_time, pc, sys, stdout>>

\* PhysicsComponent::with_velocity(vertices, velocity)
CallWithVelocity ==
    /\ call.fn = "with_velocity"
    /\ ~call.returned
    /\ call' = [call EXCEPT !.returned = TRUE,
                            !.ret = with_velocity(call.vertices, call.velocity)]
    /\ UNCHANGED <<position, velocity, bbox, collided_objects, controller_data,
                   total_time, pc, sys, stdout>>

InitBuild ==
    /\ \E b \in { s \in StartBall : s.setup } : World(b, << >>)
    /\ \E f \in Constructors, vs \in VertexLists, v \in CallVelocities :
          /\ f # "with_velocity" => v = Vec2(0, 0)
          /\ call = [ fn |-> f, returned |-> FALSE, vertices |-> vs, velocity |-> v,
                      ret |-> None ]

NextBuild == CallFromVertices \/ CallNew \/ CallWithVelocity

SpecBuild == InitBuild /\ [][NextBuild]_vars

\* the indices of a vertex list
Idx(vs) == 1..Len(vs)

\* C12: from_vertices on a list of at least 2 vertices returns a box whose
\* top_right is >= and whose bot_left is <= every vertex on both axes, each of the
\* four bounds being the coordinate of some vertex.
C12_TightBound ==
    (call.fn = "from_vertices" /\ call.returned /\ Len(call.vertices) >= 2) =>
        LET vs == call.vertices
            box == call.ret
        IN  /\ ~is_panic(box)
            /\ \A i \in Idx(vs) :
                  /\ box.top_right.x >= vs[i].x /\ box.top_right.y >= vs[i].y
                  /\ box.bot_left.x <= vs[i].x /\ box.bot_left.y <= vs[i].y
            /\ \E i \in Idx(vs) : box.top_right.x = vs[i].x
            /\ \E i \in Idx(vs) : box.top_right.y = vs[i].y
            /\ \E i \in Idx(vs) : box.bot_left.x = vs[i].x
            /\ \E i \in Idx(vs) : box.bot_left.y = vs[i].y

\* a box was built around three vertices of which the first attains none of the
\* four bounds
C12_Witness ==
    /\ call.fn = "from_vertices"
    /\ call.returned
    /\ call.vertices = << Vec2(0, 0), Vec2(2, -MaxCoord), Vec2(-MaxCoord, 2) >>
    /\ call.ret = AABB(Vec2(2, 2), Vec2(-MaxCoord, -MaxCoord))

\* C13: building a box, or a PhysicsComponent by new or with_velocity, from fewer
\* than 2 vertices panics and yields no box or component; from 2 or more vertices
\* it never panics and yields the box, or the component holding the box, the
\* velocity asked for and no records.
C13_FewerThanTwoPanics ==
    (call.fn \in Constructors /\ call.returned) =>
        IF Len(call.vertices) < 2
        THEN call.ret = Panic
        ELSE /\ ~is_panic(call.ret)
             /\ call.fn = "from_vertices" =>
                    DOMAIN call.ret = { "top_right", "bot_left" }
             /\ call.fn # "from_vertices" =>
                    /\ DOMAIN call.ret.bbox = { "top_right", "bot_left" }
                    /\ call.ret.collided_objects = << >>
                    /\ call.ret.velocity = call.velocity

\* PhysicsComponent::new on a single vertex panicked
C13_Witness ==
    /\ call.fn = "new"
    /\ call.returned
    /\ Len(call.vertices) = 1
    /\ is_panic(call.ret)

----------------------------------------------------------------------------
(* Rendering *)

\* the step is a run of the rendering system
RenderStep == sys["rendering"] = "running" /\ sys'["rendering"] = "done"

\* the systems that hold a WriteStorage of TransformComponent
TransformWriters == { s \in Systems : "TransformComponent" \in Access[s].writes }

\* C14: a run of rendering leaves every Transform and PhysicsBody as it was (Ball
\* and Paddle components are never written by anything); rendering runs only when
\* every system that writes Transforms has finished in the frame, and no Transform
\* changes from then to the end of the frame: it reads the frame's final positions.
C14_RenderingReadsFinalPositions ==
    [][ /\ RenderStep => /\ position' = position
                          /\ velocity' = velocity
                          /\ bbox' = bbox
                          /\ collided_objects' = collided_objects
        /\ sys'["rendering"] = "running" =>
                \A w \in TransformWriters : sys'[w] = "done"
        /\ (pc = "dispatch" /\ sys["rendering"] # "idle") => position' = position ]_vars

\* rendering has run in the first frame, after the ball moved to (0.78, 0) and the
\* right paddle to 0.5
C14_Witness ==
    /\ pc = "dispatch"
    /\ sys["rendering"] = "done"
    /\ total_time = DeltaTime
    /\ position["ball"] = Vec2(780, 0)
    /\ position["paddle1"] = Vec2(900, 500)

----------------------------------------------------------------------------
(* The orientation of the recorded axis *)

\* the pairs in the order the detector enumerates them: e1 created before e2
EnumeratedPairs ==
    { << entities[q[1]], entities[q[2]] >> :
        q \in { r \in (1..Len(entities)) \X (1..Len(entities)) : r[1] < r[2] } }

\* the candidate axis of two overlapping entities: (0,1) when the Y overlap is the
\* strictly shorter one, (1,0) otherwise
Candidate(a, b) ==
    LET len_x == CommonLength(WorldLo(a).x, WorldHi(a).x, WorldLo(b).x, WorldHi(b).x)
        len_y == CommonLength(WorldLo(a).y, WorldHi(a).y, WorldLo(b).y, WorldHi(b).y)
    IN  IF len_y < len_x THEN Vec2(0, 1000) ELSE Vec2(1000, 0)

\* axis . (pos2 - pos1), in millionths
AlongPair(axis, e1, e2) ==
    axis.x * (position[e2].x - position[e1].x) + axis.y * (position[e2].y - position[e1].y)

\* C15: for every colliding pair (e1, e2) in enumeration order the recorded axis is
\* the negated candidate when candidate . (pos2 - pos1) >= 0 and the candidate
\* itself otherwise; so every recorded axis a has a . (pos2 - pos1) <= 0, and with
\* a dot product of 0 the recorded axis is the negated candidate.
C15_AxisPointsFromTwoToOne ==
    DetectorJustRan =>
        \A p \in EnumeratedPairs :
            p[2] \in Others(p[1]) =>
                LET cand == Candidate(p[1], p[2])
                    neg == Vec2(-cand.x, -cand.y)
                    rec == IF AlongPair(cand, p[1], p[2]) >= 0 THEN neg ELSE cand
                IN  /\ HasRecord(p[1], p[2], rec)
                    /\ HasRecord(p[2], p[1], rec)
                    /\ \A i \in 1..Len(collided_objects[p[1]]) :
                          collided_objects[p[1]][i].other = p[2] =>
                              AlongPair(collided_objects[p[1]][i].mtv, p[1], p[2]) <= 0
                    /\ AlongPair(cand, p[1], p[2]) = 0 => HasRecord(p[1], p[2], neg)

\* the right paddle was moved onto the ball standing at its own x and y: the dot
\* product is 0 and the axis recorded is the negated (1,0)
C15_Witness ==
    /\ DetectorJustRan
    /\ position["ball"] = position["paddle1"]
    /\ collided_objects["ball"] = << Collision("paddle1", Vec2(-1000, 0)) >>

----------------------------------------------------------------------------
(* Exclusive access *)

Running == { s \in Systems : sys[s] = "running" }

\* the component types s and t both access, at least one of them writing
WrittenInCommon(s, t) ==
    (Access[s].writes \cap (Access[t].reads \cup Access[t].writes))
    \cup (Access[t].writes \cap (Access[s].reads \cup Access[s].writes))

\* C16: no two systems that access a component type at least one of them writes
\* run at the same time; the ball reaction and the paddle update both write
\* Transform, so they never run together, nor does either run together with the
\* detector or with rendering.
C16_WritersRunAlone ==
    /\ \A s \in Running, t \in Running : s # t => WrittenInCommon(s, t) = {}
    /\ "TransformComponent" \in WrittenInCommon("ball", "paddles")
    /\ ~({ "ball", "paddles" } \subseteq Running)
    /\ \A s \in { "ball", "paddles" }, t \in { "physics", "rendering" } :
          ~({ s, t } \subseteq Running)

\* the ball reaction runs while the paddle update, whose dependency is done, waits
C16_Witness ==
    /\ sys["physics"] = "done"
    /\ sys["ball"] = "running"
    /\ sys["paddles"] = "idle"
    /\ Others("ball") = { "paddle1", "bot_wall" }

----------------------------------------------------------------------------
(* Maintenance *)

\* the step is world.maintain()
MaintainStep == pc = "maintain" /\ pc' # "maintain"

\* C17: world.maintain() runs once per frame: it is entered only from a dispatch
\* whose systems, rendering included, are all done, it leads only to the poll of the
\* next iteration, that poll is entered only from it, and systems start only inside
\* a dispatch; so no system runs while components are removed.
C17_MaintainOncePerFrame ==
    [][ /\ (pc' = "maintain" /\ pc # "maintain") =>
                (pc = "dispatch" /\ \A s \in Systems : sys[s] = "done")
        /\ MaintainStep => (pc' = "poll" /\ \A s \in Systems : sys[s] = "done" /\ sys'[s] = "done")
        /\ (pc' = "poll" /\ pc # "poll") => pc = "maintain"
        /\ (pc' = "dispatch" /\ pc # "dispatch") =>
                (pc = "poll" /\ total_time' = total_time + DeltaTime)
        /\ \A s \in Systems : (sys'[s] = "running" /\ sys[s] # "running") =>
                (pc = "dispatch" /\ pc' = "dispatch") ]_vars

\* the second frame is being maintained: its four systems are done
C17_Witness ==
    /\ pc = "maintain"
    /\ total_time = 2 * DeltaTime
    /\ \A s \in Systems : sys[s] = "done"
    /\ stdout = << "Player 1 has scored!" >>

----------------------------------------------------------------------------
(* Entities *)

\* C18: the detector never panics with "Collision from unknown entity occured!":
\* the entities and components built at setup are those of every later state, so
\* every entity of a recorded pair has its PhysicsBody when the records are pushed.
C18_NoUnknownEntity ==
    /\ pc # "panic"
    /\ DOMAIN position = Entity
    /\ DOMAIN velocity = Entity
    /\ DOMAIN bbox = Entity
    /\ DOMAIN collided_objects = Entity
    /\ \A e \in Entity : Others(e) \subseteq DOMAIN collided_objects

\* in the second frame the detector pushed the pair of the ball and the bottom wall
C18_Witness ==
    /\ DetectorJustRan
    /\ total_time = 2 * DeltaTime
    /\ collided_objects["ball"] = << Collision("bot_wall", Vec2(0, -1000)) >>
    /\ HasRecord("bot_wall", "ball", Vec2(0, -1000))

----------------------------------------------------------------------------
(* Bounding boxes and the effect of the detector *)

\* the box built at setup for e, moved to the position e has now
WorldBoxNow(e) ==
    AABB(Vec2(InitBBox[e].top_right.x + position[e].x,
              InitBBox[e].top_right.y + position[e].y),
         Vec2(InitBBox[e].bot_left.x + position[e].x,
              InitBBox[e].bot_left.y + position[e].y))

\* two world boxes are apart on some axis
Apart(b1, b2) ==
    \/ b1.top_right.x < b2.bot_left.x \/ b2.top_right.x < b1.bot_left.x
    \/ b1.top_right.y < b2.bot_left.y \/ b2.top_right.y < b1.bot_left.y

\* C19: the local box of every PhysicsBody is the one built at setup in every
\* state, and every run of the detector tests the local box moved to the position
\* the entity has at that moment: what it records are the pairs whose boxes, so
\* placed, are not apart, so a move made in one frame shows in the next detection.
C19_LocalBoxFixedWorldBoxFresh ==
    /\ bbox = InitBBox
    /\ DetectorJustRan =>
          \A a \in Entity : \A b \in Entity \ { a } :
              b \in Others(a) <=> ~Apart(WorldBoxNow(a), WorldBoxNow(b))

\* the ball moved from 0.775 to 0.78 in the first frame; in the second the detector
\* finds it touching the right paddle, its local box still the one built at setup
C19_Witness ==
    /\ DetectorJustRan
    /\ total_time = 2 * DeltaTime
    /\ position["ball"] = Vec2(780, 0)
    /\ Others("ball") = { "paddle1" }
    /\ bbox["ball"] = AABB(Vec2(50, 50), Vec2(-50, -50))

\* the step is a run of the detector
PhysicsStep == sys["physics"] = "running" /\ sys'["physics"] = "done"

\* C20: a run of the detector changes only the collided_objects lists: every
\* position, every velocity and every box is after the run what it was before,
\* whether or not a collision was found.
C20_DetectorChangesOnlyRecords ==
    [][ PhysicsStep => /\ position' = position
                       /\ velocity' = velocity
                       /\ bbox' = bbox
                       /\ controller_data' = controller_data
                       /\ stdout' = stdout
                       /\ total_time' = total_time ]_vars

\* the detector found the ball against the right paddle and left it where it was,
\* touching the paddle, with its velocity
C20_Witness ==
    /\ DetectorJustRan
    /\ Others("ball") = { "paddle1" }
    /\ position["ball"] = Vec2(780, 585)
    /\ velocity["ball"] = Vec2(400, 300)

----------------------------------------------------------------------------
(* The order of the ball reaction and the paddle update *)

\* the step is a run of UpdatePaddles
PaddleStep == sys["paddles"] = "running" /\ sys'["paddles"] = "done"

\* the detector is done and neither gameplay system has started
BeforeGameplay ==
    pc = "dispatch" /\ sys["physics"] = "done" /\ sys["ball"] = "idle" /\ sys["paddles"] = "idle"

\* the world after the ball reaction followed by the paddle update
BallThenPaddles(angles, reset_angle) ==
    LET r == ball_step(position["ball"], velocity["ball"], ball_storage["ball"],
                       collided_objects["ball"], angles, reset_angle)
        p1 == [position EXCEPT !["ball"] = r.position]
    IN  [ position |-> paddles_run(p1, controller_data),
          velocity |-> [velocity EXCEPT !["ball"] = r.velocity],
          collided_objects |-> collided_objects ]

\* the world after the paddle update followed by the ball reaction
PaddlesThenBall(angles, reset_angle) ==
    LET p1 == paddles_run(position, controller_data)
        r == ball_step(p1["ball"], velocity["ball"], ball_storage["ball"],
                       collided_objects["ball"], angles, reset_angle)
    IN  [ position |-> [p1 EXCEPT !["ball"] = r.position],
          velocity |-> [velocity EXCEPT !["ball"] = r.velocity],
          collided_objects |-> collided_objects ]

\* C21: no entity is both Ball and Paddle, and from the same state with the same
\* random draws the ball reaction followed by the paddle update leaves the same
\* Transforms, velocities and records as the paddle update followed by the ball
\* reaction: the ball reaction changes only the ball's position and velocity, the
\* paddle update only the y of the paddles, neither the walls or the x of a paddle.
C21_GameplaySystemsCommute ==
    [][ /\ DOMAIN ball_storage \cap DOMAIN paddle_storage = {}
        /\ BeforeGameplay =>
              \A angles \in [ 1..Len(collided_objects["ball"]) -> BounceAngles ],
                 reset_angle \in ResetAngles :
                  BallThenPaddles(angles, reset_angle) = PaddlesThenBall(angles, reset_angle)
        /\ BallStep =>
              /\ \A e \in Entity \ DOMAIN ball_storage :
                    position'[e] = position[e] /\ velocity'[e] = velocity[e]
              /\ collided_objects' = collided_objects
        /\ PaddleStep =>
              /\ \A e \in Entity \ DOMAIN paddle_storage : position'[e] = position[e]
              /\ \A e \in DOMAIN paddle_storage : position'[e].x = position[e].x
              /\ velocity' = velocity
              /\ collided_objects' = collided_objects ]_vars

\* in the second frame the ball was turned by the right paddle, which stood at 0.5,
\* and the paddle was moved back to 0: both gameplay systems changed something
C21_Witness ==
    /\ pc = "dispatch"
    /\ sys["ball"] = "done"
    /\ sys["paddles"] = "done"
    /\ total_time = 2 * DeltaTime
    /\ collided_objects["ball"] = << Collision("paddle1", Vec2(1000, 0)) >>
    /\ position["paddle1"] = Vec2(900, 0)
    /\ position["ball"] = Vec2(776, 588)
    /\ velocity["ball"] = Vec2(-400, 300)

----------------------------------------------------------------------------
(* The speed of the ball along x *)

Abs(n) == IF n < 0 THEN -n ELSE n

\* the ball's records with a paddle whose axis is vertical: a hit on the upper or
\* lower face
FaceRecords ==
    { i \in 1..Len(BallRecords) : BallRecords[i].other \in Paddles /\ BallRecords[i].mtv.x = 0 }

\* C22: while no reset fires the magnitude of the ball's velocity.x is constant:
\* a run of the ball reaction negates it once per paddle record and not for other
\* records, whatever the recorded axis (a paddle record with a vertical axis still
\* negates velocity.x and adds the impulse to velocity.y instead of negating it);
\* no other step changes the velocity, so the magnitude changes only with a reset.
C22_SpeedAlongXConstant ==
    [][ /\ (BallStep /\ stdout' = stdout) =>
              /\ Abs(velocity'["ball"].x) = Abs(velocity["ball"].x)
              /\ velocity'["ball"].x
                    = IF NPaddle % 2 = 1 THEN -velocity["ball"].x ELSE velocity["ball"].x
              /\ (Len(BallRecords) = 1 /\ FaceRecords = { 1 }) =>
                    velocity'["ball"].y - velocity["ball"].y \in Impulses
        /\ ~BallStep => velocity' = velocity
        /\ Abs(velocity'["ball"].x) # Abs(velocity["ball"].x) =>
              (BallStep /\ Len(stdout') = Len(stdout) + 1) ]_vars

\* the ball came down on the upper face of the right paddle: the axis recorded is
\* vertical, velocity.x was negated and velocity.y was not
C22_Witness ==
    /\ pc = "dispatch"
    /\ sys["ball"] = "done"
    /\ collided_objects["ball"] = << Collision("paddle1", Vec2(0, -1000)) >>
    /\ velocity["ball"] = Vec2(-300, -400)
    /\ position["ball"] = Vec2(1011, 244)

----------------------------------------------------------------------------
(* One contact, one bounce *)

\* no controller is connected: both paddles stand at y = 0 in every frame
Still == Len(controller_data) = 0

\* where the ball stood when the detector ran in the frame before: the ball reaction
\* of that frame moved it by the velocity it still has
PrevBall ==
    Vec2(position["ball"].x - (velocity["ball"].x * 10) \div 1000,
         position["ball"].y - (velocity["ball"].y * 10) \div 1000)

\* in the frame before, the ball and paddle p were apart along x, along y
PrevApartX(p) ==
    \/ PrevBall.x + bbox["ball"].top_right.x < WorldLo(p).x
    \/ WorldHi(p).x < PrevBall.x + bbox["ball"].bot_left.x

PrevApartY(p) ==
    \/ PrevBall.y + bbox["ball"].top_right.y < WorldLo(p).y
    \/ WorldHi(p).y < PrevBall.y + bbox["ball"].bot_left.y

\* C23 as claimed: with both paddles stationary, a ball that has a record with a
\* paddle in this frame and had none with it in the frame before no longer overlaps
\* the paddle after the ball reaction, so the next detector records nothing between
\* them and velocity.x is not negated again.
C23_AsClaimed ==
    [][ /\ \A p \in Paddles :
              (BallStep /\ Still /\ p \in Others("ball")
                 /\ (PrevApartX(p) \/ PrevApartY(p))) =>
                  ~Overlapping("ball", p)'
        /\ \A p \in Paddles :
              (PhysicsStep /\ Still /\ ~Overlapping("ball", p)) =>
                  p \notin Others("ball")'
        /\ (BallStep /\ NPaddle = 0 /\ stdout' = stdout) =>
              velocity'["ball"].x = velocity["ball"].x ]_vars

\* C23, amended: with both paddles stationary, a ball that has a record with a
\* paddle in this frame and was apart from it along x in the frame before (it met
\* the face it was moving towards) has velocity.x negated and no longer overlaps
\* the paddle after the ball reaction, so the next detector records nothing between
\* them and velocity.x is not negated again.  (A ball that was apart from the
\* paddle along y only can still overlap it after the reaction.)
C23_FrontContactSingleBounce ==
    [][ /\ \A p \in Paddles :
              (BallStep /\ Still /\ p \in Others("ball") /\ PrevApartX(p)) =>
                  /\ velocity'["ball"].x = -velocity["ball"].x
                  /\ ~Overlapping("ball", p)'
        /\ \A p \in Paddles :
              (PhysicsStep /\ Still /\ ~Overlapping("ball", p)) =>
                  p \notin Others("ball")'
        /\ (BallStep /\ NPaddle = 0 /\ stdout' = stdout) =>
              velocity'["ball"].x = velocity["ball"].x ]_vars

\* with no controller, the ball that touched the front of the right paddle at
\* (0.78, 0) was turned and stands clear of it at (0.775, 0)
C23_Witness ==
    /\ Still
    /\ pc = "dispatch"
    /\ sys["ball"] = "done"
    /\ Others("ball") = { "paddle1" }
    /\ position["ball"] = Vec2(775, 0)
    /\ velocity["ball"].x = -500
    /\ ~Overlapping("ball", "paddle1")

====
